---------------------------- MODULE Spec2Model ----------------------------
(***************************************************************************)
(* A model of the FIX codec of src/src/lib.rs: field extraction            *)
(* (to_fix_hash), framing and dispatch (parse), the typed constructors,    *)
(* and the serializer (serialize_body, serialize_head, serialize,          *)
(* get_checksum and the per-message helpers).                              *)
(*                                                                         *)
(* Text is a sequence of bytes; a byte is written as a one-character       *)
(* string, and SOH stands for the byte 0x01.  Byte(c) gives the byte's     *)
(* value.  Rust panics (unwrap/expect on None or Err) are the outcome      *)
(* [kind |-> "panic"].                                                     *)
(***************************************************************************)
EXTENDS Integers, Sequences, FiniteSets, TLC

(***************************************************************************)
(* Bytes and text                                                          *)
(***************************************************************************)
SOH == "SOH"

Digits == <<"0", "1", "2", "3", "4", "5", "6", "7", "8", "9">>

Upper == <<"A", "B", "C", "D", "E", "F", "G", "H", "I", "J", "K", "L", "M",
           "N", "O", "P", "Q", "R", "S", "T", "U", "V", "W", "X", "Y", "Z">>

IsDigit(c) == \E i \in 1..10 : Digits[i] = c

DigitVal(c) == (CHOOSE i \in 1..10 : Digits[i] = c) - 1

DigitChar(d) == Digits[d + 1]

\* The ASCII value of a byte of the model's alphabet.
Byte(c) ==
  IF c = SOH THEN 1
  ELSE IF IsDigit(c) THEN 48 + DigitVal(c)
  ELSE IF \E i \in 1..26 : Upper[i] = c
       THEN 64 + (CHOOSE i \in 1..26 : Upper[i] = c)
  ELSE CASE c = "+" -> 43
         [] c = "-" -> 45
         [] c = "." -> 46
         [] c = ":" -> 58
         [] c = "=" -> 61

\* t[from..] (1-based), the rest of a text.
Drop(t, n) == SubSeq(t, n + 1, Len(t))

Take(t, n) == SubSeq(t, 1, n)

\* Whether pat occurs in t at 1-based position i.
MatchAt(t, pat, i) ==
  /\ i >= 1
  /\ i + Len(pat) - 1 <= Len(t)
  /\ \A j \in 1..Len(pat) : t[i + j - 1] = pat[j]

\* str::find: the 0-based index of the first occurrence of pat, or -1 (None).
Find(t, pat) ==
  IF \E i \in 1..Len(t) : MatchAt(t, pat, i)
  THEN (CHOOSE i \in 1..Len(t) :
          /\ MatchAt(t, pat, i)
          /\ \A j \in 1..(i - 1) : ~MatchAt(t, pat, j)) - 1
  ELSE -1

RECURSIVE Concat(_)
\* The concatenation of a sequence of texts.
Concat(ts) == IF ts = <<>> THEN <<>> ELSE Head(ts) \o Concat(Tail(ts))

RECURSIVE SplitOn(_, _)
\* str::split on a one-byte separator: the pieces between separators,
\* empty pieces included ("a|b|" gives "a", "b", "").
SplitOn(t, sep) ==
  LET i == Find(t, <<sep>>)
  IN  IF i = -1 THEN <<t>>
      ELSE <<Take(t, i)>> \o SplitOn(Drop(t, i + 1), sep)

(***************************************************************************)
(* Integers as text: str::parse::<i32>, str::parse::<u32>, Display, {:0w}  *)
(***************************************************************************)
NoNum == [ok |-> FALSE, val |-> 0]

AllDigits(t) == \A i \in 1..Len(t) : IsDigit(t[i])

RECURSIVE AccPos(_, _)
\* Digits accumulated upward with checked_mul / checked_add against i32::MAX.
AccPos(t, acc) ==
  IF t = <<>> THEN [ok |-> TRUE, val |-> acc]
  ELSE LET d == DigitVal(Head(t))
       IN  IF acc > 214748364 \/ (acc = 214748364 /\ d > 7) THEN NoNum
           ELSE AccPos(Tail(t), acc * 10 + d)

RECURSIVE AccNeg(_, _)
\* Digits accumulated downward with checked_mul / checked_sub against i32::MIN.
AccNeg(t, acc) ==
  IF t = <<>> THEN [ok |-> TRUE, val |-> acc]
  ELSE LET d == DigitVal(Head(t))
       IN  IF acc < -214748364 \/ (acc = -214748364 /\ d > 8) THEN NoNum
           ELSE AccNeg(Tail(t), acc * 10 - d)

\* str::parse::<i32>: an optional + or -, then one or more digits, in range.
ParseI32(t) ==
  IF t = <<>> THEN NoNum
  ELSE LET signed == Head(t) \in {"+", "-"}
           ds == IF signed THEN Tail(t) ELSE t
       IN  IF ds = <<>> \/ ~AllDigits(ds) THEN NoNum
           ELSE IF Head(t) = "-" THEN AccNeg(ds, 0) ELSE AccPos(ds, 0)

\* A u32 is kept as two 16-bit limbs, val = hi * 65536 + lo.
U32(hi, lo) == [hi |-> hi, lo |-> lo]

U32OfNat(n) == U32(n \div 65536, n % 65536)

NoU32 == [ok |-> FALSE, val |-> U32(0, 0)]

RECURSIVE AccU32(_, _)
\* Digits accumulated with checked_mul / checked_add against u32::MAX.
AccU32(t, acc) ==
  IF t = <<>> THEN [ok |-> TRUE, val |-> acc]
  ELSE LET lo == acc.lo * 10 + DigitVal(Head(t))
           hi == acc.hi * 10 + (lo \div 65536)
       IN  IF hi > 65535 THEN NoU32
           ELSE AccU32(Tail(t), U32(hi, lo % 65536))

\* str::parse::<u32>: an optional +, then one or more digits, in range; a
\* leading - is an invalid digit.
ParseU32(t) ==
  IF t = <<>> THEN NoU32
  ELSE LET ds == IF Head(t) = "+" THEN Tail(t) ELSE t
       IN  IF ds = <<>> \/ ~AllDigits(ds) THEN NoU32
           ELSE AccU32(ds, U32(0, 0))

RECURSIVE NatText(_)
\* Display of a non-negative integer.
NatText(n) ==
  IF n < 10 THEN <<DigitChar(n)>>
  ELSE NatText(n \div 10) \o <<DigitChar(n % 10)>>

\* i32::to_string.
I32Text(n) == IF n < 0 THEN <<"-">> \o NatText(0 - n) ELSE NatText(n)

RECURSIVE U32Text(_)
\* Display of a u32, by long division of the two limbs by ten.
U32Text(u) ==
  LET r == (u.hi % 10) * 65536 + u.lo
      q == U32(u.hi \div 10, r \div 10)
  IN  IF q = U32(0, 0) THEN <<DigitChar(r % 10)>>
      ELSE U32Text(q) \o <<DigitChar(r % 10)>>

RECURSIVE ZeroPad(_, _)
\* {:0w}: zeros on the left up to width w; a longer text is left as it is.
ZeroPad(t, w) == IF Len(t) >= w THEN t ELSE ZeroPad(<<"0">> \o t, w)

(***************************************************************************)
(* f64 arithmetic.  A finite f64 is man * 2^exp with man a 53-bit          *)
(* significand written most significant bit first (<<>> for zero); every   *)
(* operation rounds to nearest, ties to even, as IEEE 754 does.  Exact     *)
(* intermediate integers are sequences of 15-bit limbs, most significant   *)
(* first.  Texts and prices of the model stay far from the subnormal and   *)
(* overflow ranges.                                                        *)
(***************************************************************************)
\* n zeros (none for n <= 0).
Zeros(n) == [i \in 1..(IF n > 0 THEN n ELSE 0) |-> 0]

\* b without its leading zero entries (bits or limbs).
StripZeros(b) ==
  IF \A i \in 1..Len(b) : b[i] = 0 THEN <<>>
  ELSE Drop(b, (CHOOSE i \in 1..Len(b) :
                  b[i] # 0 /\ \A j \in 1..(i - 1) : b[j] = 0) - 1)

\* The value of 15 bits.
LimbVal(c) ==
  c[1] * 16384 + c[2] * 8192 + c[3] * 4096 + c[4] * 2048 + c[5] * 1024
    + c[6] * 512 + c[7] * 256 + c[8] * 128 + c[9] * 64 + c[10] * 32
    + c[11] * 16 + c[12] * 8 + c[13] * 4 + c[14] * 2 + c[15]

BigOfBits(b) ==
  LET n == (Len(b) + 14) \div 15
      p == Zeros(15 * n - Len(b)) \o b
  IN  StripZeros([j \in 1..n |-> LimbVal(SubSeq(p, 15 * j - 14, 15 * j))])

BitsOfBig(l) ==
  StripZeros([i \in 1..(15 * Len(l)) |->
                (l[((i - 1) \div 15) + 1] \div 2^(14 - ((i - 1) % 15))) % 2])

\* The value of at most 31 bits.
BitsNat(b) ==
  LET l == BigOfBits(b)
  IN  CASE Len(l) = 0 -> 0
        [] Len(l) = 1 -> l[1]
        [] Len(l) = 2 -> l[1] * 32768 + l[2]
        [] Len(l) = 3 -> (l[1] * 32768 + l[2]) * 32768 + l[3]

NatBits(n) == StripZeros([i \in 1..31 |-> (n \div 2^(31 - i)) % 2])

RECURSIVE BigMulAdd(_, _, _)
\* l * c + a, for c and a below 2^15.
BigMulAdd(l, c, a) ==
  IF l = <<>> THEN (IF a = 0 THEN <<>> ELSE <<a>>)
  ELSE LET t == l[Len(l)] * c + a
       IN  BigMulAdd(Take(l, Len(l) - 1), c, t \div 32768) \o <<t % 32768>>

RECURSIVE BigDivAcc(_, _, _)
\* Long division of l by d < 2^15 with r carried in: quotient limbs (leading
\* zeros kept) and remainder.
BigDivAcc(l, d, r) ==
  IF l = <<>> THEN [q |-> <<>>, r |-> r]
  ELSE LET t == r * 32768 + Head(l)
           rec == BigDivAcc(Tail(l), d, t % d)
       IN  [q |-> <<t \div d>> \o rec.q, r |-> rec.r]

RECURSIVE BigMulPow10(_, _)
\* l * 10^f.
BigMulPow10(l, f) ==
  IF f = 0 THEN l
  ELSE LET g == IF f > 4 THEN 4 ELSE f
       IN  BigMulPow10(BigMulAdd(l, 10^g, 0), f - g)

RECURSIVE BigDivPow10(_, _)
\* l / 10^f: the quotient, and whether a remainder was left.
BigDivPow10(l, f) ==
  IF f = 0 THEN [q |-> l, sticky |-> FALSE]
  ELSE LET g == IF f > 4 THEN 4 ELSE f
           dv == BigDivAcc(l, 10^g, 0)
           rec == BigDivPow10(StripZeros(dv.q), f - g)
       IN  [q |-> rec.q, sticky |-> rec.sticky \/ dv.r # 0]

RECURSIVE BigOfDigits(_)
\* The number a digit string writes.
BigOfDigits(ds) ==
  IF ds = <<>> THEN <<>>
  ELSE BigMulAdd(BigOfDigits(Take(ds, Len(ds) - 1)), 10,
                 DigitVal(ds[Len(ds)]))

\* b + 1 on bits.
Inc(b) ==
  IF \A i \in 1..Len(b) : b[i] = 1 THEN <<1>> \o Zeros(Len(b))
  ELSE LET p == CHOOSE i \in 1..Len(b) :
                  b[i] = 0 /\ \A j \in (i + 1)..Len(b) : b[j] = 1
       IN  [i \in 1..Len(b) |-> IF i < p THEN b[i] ELSE IF i = p THEN 1 ELSE 0]

\* b / 2^drop rounded to the nearest integer, ties to even; sticky says that
\* non-zero bits lie below b.
RoundDrop(b, drop, sticky) ==
  IF drop <= 0 THEN b
  ELSE LET p == IF Len(b) < drop THEN Zeros(drop - Len(b)) \o b ELSE b
           keep == Len(p) - drop
           top == Take(p, keep)
           rb == p[keep + 1]
           rest == \E i \in (keep + 2)..Len(p) : p[i] = 1
           odd == keep > 0 /\ top[keep] = 1
       IN  IF rb = 1 /\ (sticky \/ rest \/ odd) THEN Inc(top) ELSE top

\* Non-zero bits b * 2^e as a 53-bit significand and its exponent.
Normalize(b, e, sticky) ==
  LET s == StripZeros(b)
      l == Len(s)
  IN  IF l <= 53 THEN [man |-> s \o Zeros(53 - l), exp |-> e - (53 - l)]
      ELSE LET r == RoundDrop(s, l - 53, sticky)
           IN  IF Len(r) = 54 THEN [man |-> Take(r, 53), exp |-> e + l - 52]
               ELSE [man |-> r, exp |-> e + l - 53]

F64Zero(neg) == [cls |-> "fin", neg |-> neg, man |-> <<>>, exp |-> 0]

F64Inf(neg) == [cls |-> "inf", neg |-> neg, man |-> <<>>, exp |-> 0]

F64NaN == [cls |-> "nan", neg |-> FALSE, man |-> <<>>, exp |-> 0]

\* The f64 nearest to n / 10^f, for the bits n: the quotient is taken with
\* 56 + 4f extra binary places, which leaves at least 55 significant bits.
RatioToF64(neg, n, f) ==
  IF StripZeros(n) = <<>> THEN F64Zero(neg)
  ELSE LET k == 56 + 4 * f
           dv == BigDivPow10(BigOfBits(StripZeros(n) \o Zeros(k)), f)
           nm == Normalize(BitsOfBig(dv.q), 0 - k, dv.sticky)
       IN  [cls |-> "fin", neg |-> neg, man |-> nm.man, exp |-> nm.exp]

\* The bits of the integer part of a finite x.
IntBits(x) ==
  IF x.man = <<>> \/ 53 + x.exp <= 0 THEN <<>>
  ELSE IF x.exp >= 0 THEN x.man \o Zeros(x.exp)
  ELSE Take(x.man, 53 + x.exp)

\* i32 as f64: exact.
I32ToF64(k) ==
  IF k = 0 THEN F64Zero(FALSE)
  ELSE LET nm == Normalize(NatBits(IF k < 0 THEN 0 - k ELSE k), 0, FALSE)
       IN  [cls |-> "fin", neg |-> k < 0, man |-> nm.man, exp |-> nm.exp]

\* x * 10^f for an f64 x (the f64 of 10^f is exact for the f used: 4).
F64MulPow10(x, f) ==
  IF x.cls # "fin" \/ x.man = <<>> THEN x
  ELSE LET nm == Normalize(BitsOfBig(BigMulPow10(BigOfBits(x.man), f)),
                           x.exp, FALSE)
       IN  [cls |-> "fin", neg |-> x.neg, man |-> nm.man, exp |-> nm.exp]

\* x / 10^f for an f64 x that holds an integer.
F64DivPow10(x, f) ==
  IF x.cls # "fin" \/ x.man = <<>> THEN x
  ELSE RatioToF64(x.neg, IntBits(x), f)

\* `x as i32`: truncation toward zero, saturating, NaN to 0.
F64ToI32(x) ==
  IF x.cls = "nan" THEN 0
  ELSE IF x.cls = "inf" \/ (x.man # <<>> /\ 53 + x.exp > 31)
       THEN IF x.neg THEN -2147483647 - 1 ELSE 2147483647
  ELSE LET v == BitsNat(IntBits(x))
       IN  IF x.neg THEN 0 - v ELSE v

\* The integer nearest to x * 10^f, as bits (x finite).
Scaled(x, f) ==
  IF x.man = <<>> THEN <<>>
  ELSE StripZeros(RoundDrop(BitsOfBig(BigMulPow10(BigOfBits(x.man), f))
                              \o Zeros(x.exp),
                            0 - x.exp, FALSE))

\* A decimal text of the scaled integer bits n (below 2^31) with f <= 9
\* fractional digits.
DecimalText(neg, n, f) ==
  LET v == BitsNat(n)
      whole == NatText(v \div 10^f)
      frac == ZeroPad(NatText(v % 10^f), f)
  IN  (IF neg THEN <<"-">> ELSE <<>>) \o whole
        \o (IF f = 0 THEN <<>> ELSE <<".">> \o frac)

\* format!("{:.4}", x): x rounded to 4 fractional digits.
Fixed4Text(x) == DecimalText(x.neg, Scaled(x, 4), 4)

\* f64::to_string: the shortest decimal text that parses back to x.  The
\* values the model prints need at most 9 fractional digits.
F64Text(x) ==
  LET fits(f) == RatioToF64(x.neg, Scaled(x, f), f) = x
      f == CHOOSE g \in 0..9 : fits(g) /\ \A h \in 0..(g - 1) : ~fits(h)
  IN  DecimalText(x.neg, Scaled(x, f), f)

NoF64 == [ok |-> FALSE, val |-> F64NaN]

\* str::parse::<f64> (correctly rounded): an optional sign, then inf,
\* infinity or nan in any case, or digits with at most one point and at
\* least one digit.  Exponents (e, E) are not used by the model's texts.
ParseF64(t) ==
  LET signed == t # <<>> /\ Head(t) \in {"+", "-"}
      neg == t # <<>> /\ Head(t) = "-"
      r == IF signed THEN Tail(t) ELSE t
      dot == Find(r, <<".">>)
      whole == IF dot = -1 THEN r ELSE Take(r, dot)
      frac == IF dot = -1 THEN <<>> ELSE Drop(r, dot + 1)
  IN  IF r = <<>> THEN NoF64
      ELSE IF r \in {<<"I", "N", "F">>,
                     <<"I", "N", "F", "I", "N", "I", "T", "Y">>}
           THEN [ok |-> TRUE, val |-> F64Inf(neg)]
      ELSE IF r = <<"N", "A", "N">> THEN [ok |-> TRUE, val |-> F64NaN]
      ELSE IF ~AllDigits(whole) \/ ~AllDigits(frac)
              \/ Len(whole) + Len(frac) = 0
           THEN NoF64
      ELSE [ok |-> TRUE,
            val |-> RatioToF64(neg, BitsOfBig(BigOfDigits(whole \o frac)),
                               Len(frac))]

(***************************************************************************)
(* Tags (mod tags) and results                                             *)
(***************************************************************************)
MsgType == 35
MsgSeqNum == 34
SenderCompID == 49
TargetCompID == 56
ExecType == 150
Symbol == 55
Price == 44
ClOrdId == 11
OrigClOrdId == 41
OrderID == 37
OrdStatus == 39
OrderQty == 38
Side == 54
ExecTransType == 20
LastPx == 31
LastShares == 32
LeavesQty == 151
ExecID == 17
BeginString == 8
BodyLength == 9
CheckSum == 10
Text == 58
EndSeqNo == 16
GapFillFlag == 123
NewSeqNo == 36

FIX_SEPARATOR == SOH

\* Ok(v), Err(FixError{kind, field}), and a panic of the calling thread.
Ok(v) == [kind |-> "ok", val |-> v]

Err(k, f) == [kind |-> "err", err |-> k, field |-> f]

Panic == [kind |-> "panic"]

(***************************************************************************)
(* to_fix_hash: split on SOH, drop empty pieces, split each piece at its   *)
(* first "=", parse the left side as i32 (unwrap), collect into a map in   *)
(* which a later piece replaces an earlier one of the same tag.            *)
(***************************************************************************)
NonEmpty(seg) == Len(seg) > 0

Pieces(string) == SelectSeq(SplitOn(string, FIX_SEPARATOR), NonEmpty)

KeyText(seg) == Take(seg, Find(seg, <<"=">>))

ValText(seg) == Drop(seg, Find(seg, <<"=">>) + 1)

\* A piece on which find("=").unwrap() or key.parse().unwrap() panics.
PieceFails(seg) == Find(seg, <<"=">>) = -1 \/ ~ParseI32(KeyText(seg)).ok

to_fix_hash(string) ==
  LET segs == Pieces(string)
      key(i) == ParseI32(KeyText(segs[i])).val
      last(k) == CHOOSE i \in 1..Len(segs) :
                   key(i) = k /\ \A j \in (i + 1)..Len(segs) : key(j) # k
  IN  IF \E i \in 1..Len(segs) : PieceFails(segs[i]) THEN Panic
      ELSE Ok([k \in {key(i) : i \in 1..Len(segs)} |-> ValText(segs[last(k)])])

get_or_fail(m, field) ==
  IF field \in DOMAIN m THEN Ok(m[field]) ELSE Err("MissingField", field)

\* The lookup of field fails (the ? after it returns its error).
Lacks(m, field) == get_or_fail(m, field).kind = "err"

(***************************************************************************)
(* Typed constructors.  Each looks its fields up in the order of the       *)
(* source and returns at the first lookup or conversion that fails.        *)
(***************************************************************************)
\* Decimal text to the scaled price: parse as f64, times 10000.0, as i32.
ScaledPrice(x) == F64ToI32(F64MulPow10(x, 4))

SideOf(t) == IF t = <<"1">> THEN "B" ELSE "S"

NewOrder_new(m) ==
  IF Lacks(m, Symbol) THEN get_or_fail(m, Symbol)
  ELSE IF Lacks(m, ClOrdId) THEN get_or_fail(m, ClOrdId)
  ELSE IF Lacks(m, Price) THEN get_or_fail(m, Price)
  ELSE IF ~ParseF64(m[Price]).ok THEN Panic
  ELSE IF Lacks(m, Side) THEN get_or_fail(m, Side)
  ELSE IF Lacks(m, OrderQty) THEN get_or_fail(m, OrderQty)
  ELSE IF ~ParseI32(m[OrderQty]).ok THEN Panic
  ELSE Ok([type |-> "New", symbol |-> m[Symbol], clordid |-> m[ClOrdId],
           price |-> ScaledPrice(ParseF64(m[Price]).val),
           qty |-> ParseI32(m[OrderQty]).val, side |-> SideOf(m[Side])])

CancelOrder_new(m) ==
  IF Lacks(m, ClOrdId) THEN get_or_fail(m, ClOrdId)
  ELSE IF Lacks(m, OrigClOrdId) THEN get_or_fail(m, OrigClOrdId)
  ELSE Ok([type |-> "Cancel", clordid |-> m[ClOrdId],
           origclordid |-> m[OrigClOrdId]])

NewOrderAck_new(m) == Ok([type |-> "NewAck"])

Fill_new(m) ==
  IF Lacks(m, Symbol) THEN get_or_fail(m, Symbol)
  ELSE IF Lacks(m, ClOrdId) THEN get_or_fail(m, ClOrdId)
  ELSE IF Lacks(m, LastPx) THEN get_or_fail(m, LastPx)
  ELSE IF ~ParseF64(m[LastPx]).ok THEN Err("InvalidFormat", LastPx)
  ELSE IF Lacks(m, LastShares) THEN get_or_fail(m, LastShares)
  ELSE IF ~ParseI32(m[LastShares]).ok THEN Err("InvalidFormat", LastShares)
  ELSE IF Lacks(m, Side) THEN get_or_fail(m, Side)
  ELSE Ok([type |-> "Fill", symbol |-> m[Symbol], clorid |-> m[ClOrdId],
           exec_price |-> ScaledPrice(ParseF64(m[LastPx]).val),
           exec_qty |-> ParseI32(m[LastShares]).val,
           side |-> SideOf(m[Side]), aggr_ind |-> "A"])

\* Login::new returns Self, not a Result: every unwrap that fails panics.
Login_new(msg) ==
  IF SenderCompID \notin DOMAIN msg \/ TargetCompID \notin DOMAIN msg
     \/ MsgSeqNum \notin DOMAIN msg
  THEN Panic
  ELSE IF ~ParseU32(msg[MsgSeqNum]).ok THEN Panic
  ELSE Ok([type |-> "Login", sendercompid |-> msg[SenderCompID],
           targetcompid |-> msg[TargetCompID],
           seqno |-> ParseU32(msg[MsgSeqNum]).val])

ResendRequest_new(m) ==
  IF Lacks(m, EndSeqNo) THEN get_or_fail(m, EndSeqNo)
  ELSE IF ~ParseU32(m[EndSeqNo]).ok THEN Err("InvalidFormat", EndSeqNo)
  ELSE Ok([type |-> "ResendRequest", end_seqno |-> ParseU32(m[EndSeqNo]).val])

(***************************************************************************)
(* parse: frame the first message, extract its fields, dispatch on tag 35  *)
(* (and on tag 150 for an execution report).  A successful result carries  *)
(* the bytes eaten and the message.                                        *)
(***************************************************************************)
Parsed(bytes_eaten, r) ==
  IF r.kind = "ok" THEN [kind |-> "ok", eaten |-> bytes_eaten, msg |-> r.val]
  ELSE r

\* FrameLen with the length test off by one: a frame is taken only once a
\* byte beyond it has arrived.
FrameLen_late(fixstr) ==
  LET index == Find(fixstr, <<SOH, "1", "0", "=">>)
  IN  IF index = -1 \/ Len(fixstr) <= index + 8 THEN -1 ELSE index + 8

\* FrameLen with the frame one byte short: the checksum's SOH is left out.
FrameLen_short(fixstr) ==
  LET index == Find(fixstr, <<SOH, "1", "0", "=">>)
  IN  IF index = -1 \/ Len(fixstr) < index + 7 THEN -1 ELSE index + 7

\* The length of the framed message: 8 bytes from the first SOH "10="
\* marker, or -1 when the marker is absent or fewer than 8 bytes follow it.
FrameLen(fixstr) ==
  LET index == Find(fixstr, <<SOH, "1", "0", "=">>)
  IN  IF index = -1 \/ Len(fixstr) < index + 8 THEN -1 ELSE index + 8

\* ExecutionReport with the test for ExecType "2" left out.
ExecutionReport_fill1(hash, bytes_eaten) ==
  IF ExecType \in DOMAIN hash
  THEN IF hash[ExecType] = <<"0">>
       THEN Parsed(bytes_eaten, NewOrderAck_new(hash))
       ELSE IF hash[ExecType] = <<"1">>
       THEN Parsed(bytes_eaten, Fill_new(hash))
       ELSE Err("MissingField", ExecType)
  ELSE Err("MissingField", ExecType)

\* The branch for msg_type "8".
ExecutionReport(hash, bytes_eaten) ==
  IF ExecType \in DOMAIN hash
  THEN IF hash[ExecType] = <<"0">>
       THEN Parsed(bytes_eaten, NewOrderAck_new(hash))
       ELSE IF hash[ExecType] = <<"1">> \/ hash[ExecType] = <<"2">>
       THEN Parsed(bytes_eaten, Fill_new(hash))
       ELSE Err("MissingField", ExecType)
  ELSE Err("MissingField", ExecType)

Dispatch(hash, bytes_eaten) ==
  IF MsgType \in DOMAIN hash
  THEN LET msg_type == hash[MsgType]
       IN  IF msg_type = <<"A">> THEN Parsed(bytes_eaten, Login_new(hash))
           ELSE IF msg_type = <<"5">>
           THEN Parsed(bytes_eaten, Ok([type |-> "Logout"]))
           ELSE IF msg_type = <<"0">>
           THEN Parsed(bytes_eaten, Ok([type |-> "Heartbeat"]))
           ELSE IF msg_type = <<"2">>
           THEN Parsed(bytes_eaten, ResendRequest_new(hash))
           ELSE IF msg_type = <<"4">>
           THEN Parsed(bytes_eaten, Ok([type |-> "SequenceReset"]))
           ELSE IF msg_type = <<"D">>
           THEN Parsed(bytes_eaten, NewOrder_new(hash))
           ELSE IF msg_type = <<"F">>
           THEN Parsed(bytes_eaten, CancelOrder_new(hash))
           ELSE IF msg_type = <<"8">>
           THEN ExecutionReport(hash, bytes_eaten)
           ELSE Err("UnexpectedMessage", 0)
  ELSE Err("MissingField", 35)

parse(fixstr) ==
  LET bytes_eaten == FrameLen(fixstr)
      hash == to_fix_hash(Take(fixstr, bytes_eaten))
  IN  IF bytes_eaten = -1 THEN Err("Incomplete", CheckSum)
      ELSE IF hash.kind = "panic" THEN Panic
      ELSE Dispatch(hash.val, bytes_eaten)

(***************************************************************************)
(* The serializer.  A HashMap is a function from tags to texts; the order  *)
(* in which it is iterated is not specified, so serialize_body takes it as *)
(* `order`, a sequence that lists the map's keys once each.  The clock     *)
(* (Utc::now, formatted) is the text `dtstr`.  write! into a full          *)
(* fixed-size buffer fails, and expect/unwrap then panics.                 *)
(***************************************************************************)
BufSize == 1024

\* One body or header field: "{tag}={value}\x01".
Field(k, v) == I32Text(k) \o <<"=">> \o v \o <<SOH>>

HeaderTags == {BeginString, BodyLength, MsgType, MsgSeqNum}

Kept(k) == k \notin HeaderTags

\* serialize_body without its filter: every supplied field is written.
serialize_body_all(msg, order) ==
  LET all == [i \in 1..Len(order) |->
                I32Text(order[i]) \o <<"=">> \o msg[order[i]] \o <<SOH>>]
  IN  [kind |-> "ok", val |-> Concat(all)]

RECURSIVE WriteFields(_, _)
WriteFields(msg, order) ==
  IF order = <<>> THEN <<>>
  ELSE Field(Head(order), msg[Head(order)]) \o WriteFields(msg, Tail(order))

serialize_body(msg, order) ==
  LET body == WriteFields(msg, SelectSeq(order, Kept))
  IN  IF Len(body) > BufSize THEN Panic ELSE Ok(body)

timestamp_format ==
  <<"Y", "Y", "Y", "Y", "M", "M", "D", "D", "-", "H", "H", ":", "M", "M", ":",
    "S", "S", ".", "s", "s", "s">>

serialize_head(msg_type, sendercompid, targetcompid, seqno, body, dtstr) ==
  LET msg_len == 4 + Len(msg_type)
                   + 4 + Len(sendercompid)
                   + 4 + Len(targetcompid)
                   + 4 + Len(timestamp_format)
                   + 4 + 7
                   + Len(body)
      head == <<"8", "=", "F", "I", "X", "4", ".", "2", SOH>>
                \o <<"9", "=">> \o NatText(msg_len) \o <<SOH>>
                \o <<"3", "5", "=">> \o msg_type \o <<SOH>>
                \o <<"5", "2", "=">> \o dtstr \o <<SOH>>
                \o <<"4", "9", "=">> \o sendercompid \o <<SOH>>
                \o <<"5", "6", "=">> \o targetcompid \o <<SOH>>
                \o <<"3", "4", "=">> \o ZeroPad(U32Text(seqno), 7) \o <<SOH>>
  IN  IF Len(head) > BufSize THEN Panic ELSE Ok(head)

RECURSIVE ByteSum(_)
\* The sum of the bytes of a text (halving keeps the recursion shallow).
ByteSum(t) ==
  IF Len(t) = 0 THEN 0
  ELSE IF Len(t) = 1 THEN Byte(t[1])
  ELSE ByteSum(Take(t, Len(t) \div 2)) + ByteSum(Drop(t, Len(t) \div 2))

\* get_checksum summing its first argument only.
get_checksum_first(header, body) == ByteSum(header) % 256

get_checksum(header, body) == (ByteSum(header) + ByteSum(body)) % 256

serialize(msg_type, sendercompid, targetcompid, seqno, msg, order, dtstr) ==
  LET body == serialize_body(msg, order)
      head == serialize_head(msg_type, sendercompid, targetcompid, seqno,
                             body.val, dtstr)
      tail == <<"1", "0", "=">>
                \o ZeroPad(NatText(get_checksum(body.val, head.val)), 3)
                \o <<SOH>>
  IN  IF body.kind = "panic" THEN Panic
      ELSE IF head.kind = "panic" THEN Panic
      ELSE Ok(head.val \o body.val \o Take(tail, 7))

(***************************************************************************)
(* The per-message helpers: each builds its field table and serializes it. *)
(***************************************************************************)
\* (price as f64) / 10000.0.
PriceF64(price) == F64DivPow10(I32ToF64(price), 4)

NewOrderAck_fields(clordid, orderid, symbol, price, qty, side) ==
  (ClOrdId :> clordid) @@ (OrderID :> orderid) @@ (ExecTransType :> <<"0">>)
    @@ (OrdStatus :> <<"0">>) @@ (ExecType :> <<"0">>) @@ (Symbol :> symbol)
    @@ (Price :> Fixed4Text(PriceF64(price))) @@ (OrderQty :> I32Text(qty))
    @@ (Side :> <<side>>)

CancelOrderAck_fields(clordid, origclordid, orderid, symbol) ==
  (ClOrdId :> clordid) @@ (OrigClOrdId :> origclordid)
    @@ (OrderID :> orderid) @@ (ExecTransType :> <<"0">>)
    @@ (OrdStatus :> <<"4">>) @@ (ExecType :> <<"4">>) @@ (Symbol :> symbol)

OrderReject_fields(clordid, symbol, text) ==
  (ClOrdId :> clordid) @@ (ExecTransType :> <<"0">>)
    @@ (OrdStatus :> <<"8">>) @@ (ExecType :> <<"8">>) @@ (Symbol :> symbol)
    @@ (Text :> text)

Fill_fields(clordid, orderid, symbol, execid, exec_price, exec_qty, leaves_qty) ==
  LET tipe == IF leaves_qty = 0 THEN <<"2">> ELSE <<"1">>
  IN  (ClOrdId :> clordid) @@ (OrderID :> orderid)
        @@ (ExecTransType :> <<"0">>) @@ (OrdStatus :> tipe)
        @@ (ExecType :> tipe) @@ (Symbol :> symbol)
        @@ (ExecID :> NatText(execid))
        @@ (LastPx :> F64Text(PriceF64(exec_price)))
        @@ (LastShares :> I32Text(exec_qty))

SequenceReset_fields(new_seqno, gap_fill) ==
  (GapFillFlag :> IF gap_fill THEN <<"Y">> ELSE <<"N">>)
    @@ (NewSeqNo :> U32Text(new_seqno))

\* Login::serialize and Heartbeat::serialize pass HashMap::new().
EmptyFields == [k \in {} |-> <<>>]

(***************************************************************************)
(* State.  The codec keeps none of its own: the state is that of a caller, *)
(* its read buffer and the result of its last call, with what the peer     *)
(* sent kept beside it for reference.                                      *)
(***************************************************************************)
VARIABLES
  wire,    \* bytes the peer has sent and the caller has not yet read
  buf,     \* the caller's read buffer, handed to parse
  res,     \* the result of the last parse(buf), NoRes before the call
  sent,    \* the segments of the message the peer composed
  frames,  \* the frames the peer put on the wire, in order
  pos,     \* bytes of the stream the caller has advanced past
  call,    \* the arguments of the last serialize call
  out,     \* its result
  px       \* a price on its way through rendering and decoding

vars == <<wire, buf, res, sent, frames, pos, call, out, px>>

NoRes == [kind |-> "none"]

NoCall == [helper |-> "none"]

NoPx == [stage |-> "idle"]

Idle ==
  /\ wire = <<>>
  /\ buf = <<>>
  /\ res = NoRes
  /\ sent = <<>>
  /\ frames = <<>>
  /\ pos = 0
  /\ call = NoCall
  /\ out = NoRes
  /\ px = NoPx

(***************************************************************************)
(* Decoding whole messages.  The peer composes a message from a type, the  *)
(* fields of that type (each absent, valid or invalid), and at most one    *)
(* further segment: a repeated tag 35, an unrelated field, or a segment    *)
(* that is not tag=value.  The caller reads it whole and calls parse.      *)
(***************************************************************************)
Absent == <<"absent">>

Seg(tag, val) == [bad |-> FALSE, tag |-> tag, val |-> val]

Raw(text) == [bad |-> TRUE, tag |-> 0, val |-> text]

Opt(tag, v) == IF v = Absent THEN <<>> ELSE <<Seg(tag, v)>>

SegText(g) == IF g.bad THEN g.val ELSE NatText(g.tag) \o <<"=">> \o g.val

OnWire(segs) == Concat([i \in 1..Len(segs) |-> SegText(segs[i]) \o <<SOH>>])

GoodU32 == {<<"1", "2", "3", "4">>, <<"7">>}

GoodF64 == {<<"1", "3", "4", ".", "5", "6">>, <<"0", ".", "0", "0", "0", "3">>}

GoodI32 == {<<"6", "0", "0">>, <<"-", "5">>}

NotNumeric == {<<"A", "B", "C", "D">>, <<>>}

Ids == {<<"A", "A", "P", "L">>}

BodyOf(t) ==
  CASE t = <<"A">> ->
         {Opt(SenderCompID, a) \o Opt(TargetCompID, b) \o Opt(MsgSeqNum, c) :
            a \in Ids \cup {Absent}, b \in Ids \cup {Absent},
            c \in {<<"1", "2", "3", "4">>, <<"A", "B", "C", "D">>,
                   <<"-", "1">>, Absent}}
    [] t = <<"D">> ->
         {Opt(Symbol, a) \o Opt(ClOrdId, b) \o Opt(Price, c) \o Opt(Side, d)
            \o Opt(OrderQty, e) :
            a \in Ids \cup {Absent}, b \in Ids \cup {Absent},
            c \in {<<"1", "3", "4", ".", "5", "6">>, <<"A", "B", "C", "D">>,
                   Absent},
            d \in {<<"1">>, <<"2">>, Absent},
            e \in {<<"6", "0", "0">>, <<"A", "B", "C", "D">>, Absent}}
    [] t = <<"F">> ->
         {Opt(ClOrdId, a) \o Opt(OrigClOrdId, b) :
            a \in Ids \cup {Absent}, b \in Ids \cup {Absent}}
    [] t = <<"8">> ->
         {Opt(ExecType, x) \o Opt(Symbol, a) \o Opt(ClOrdId, b)
            \o Opt(LastPx, c) \o Opt(LastShares, d) \o Opt(Side, e) :
            x \in {<<"0">>, <<"1">>, <<"2">>, <<"9">>, Absent},
            a \in Ids \cup {Absent}, b \in Ids \cup {Absent},
            c \in {<<"0", ".", "0", "0", "0", "3">>, <<"A", "B", "C", "D">>,
                   Absent},
            d \in {<<"-", "5">>, <<"A", "B", "C", "D">>, <<>>, Absent},
            e \in {<<"1">>, Absent}}
    [] t = <<"2">> ->
         {Opt(EndSeqNo, a) :
            a \in {<<"7">>, <<"A", "B", "C", "D">>, <<"-", "1">>, Absent}}
    [] OTHER -> {<<>>}

MsgTypes ==
  {<<"A">>, <<"5">>, <<"0">>, <<"2">>, <<"4">>, <<"D">>, <<"F">>, <<"8">>,
   <<"Z">>, <<"A", "A">>, <<>>, Absent}

Extras ==
  {<<>>, <<Seg(MsgType, <<"0">>)>>, <<Seg(Text, <<"A", "=", "B">>)>>,
   <<Raw(<<"A", "B", "C">>)>>, <<Raw(<<"X", "=", "1">>)>>,
   <<Raw(<<"=", "1">>)>>}

Composed(t, body, extra) ==
  <<Seg(BeginString, <<"F", "I", "X", "4", ".", "2">>)>> \o Opt(MsgType, t)
    \o body \o extra \o <<Seg(CheckSum, <<"0", "0", "0">>)>>

\* The peer's message arrives whole in the empty read buffer.
Receive ==
  /\ buf = <<>>
  /\ res = NoRes
  /\ \E t \in MsgTypes : \E body \in BodyOf(t) : \E extra \in Extras :
       /\ sent' = Composed(t, body, extra)
       /\ buf' = OnWire(Composed(t, body, extra))
  /\ UNCHANGED <<wire, res, frames, pos, call, out, px>>

\* The caller calls parse on its read buffer.
Parse ==
  /\ res = NoRes
  /\ res' = parse(buf)
  /\ UNCHANGED <<wire, buf, sent, frames, pos, call, out, px>>

\* The caller takes the result and clears the buffer for the next message.
Consume ==
  /\ res # NoRes
  /\ sent # <<>>
  /\ buf' = <<>>
  /\ res' = NoRes
  /\ sent' = <<>>
  /\ UNCHANGED <<wire, frames, pos, call, out, px>>

NextDecode == Receive \/ Parse \/ Consume

SpecDecode == Idle /\ [][NextDecode]_vars

(***************************************************************************)
(* Claims about decoding whole messages (SpecDecode).  What the peer sent  *)
(* is read from `sent`, not from the bytes: the value of a tag is that of  *)
(* its last tag=value segment.                                             *)
(***************************************************************************)
SentHas(tag) == \E i \in 1..Len(sent) : ~sent[i].bad /\ sent[i].tag = tag

SentVal(tag) ==
  IF SentHas(tag)
  THEN sent[CHOOSE i \in 1..Len(sent) :
              /\ ~sent[i].bad /\ sent[i].tag = tag
              /\ \A j \in (i + 1)..Len(sent) :
                   sent[j].bad \/ sent[j].tag # tag].val
  ELSE Absent

SentWellFormed == \A i \in 1..Len(sent) : ~sent[i].bad

Decoded == res # NoRes /\ sent # <<>>

\* The required fields of each variant are present and valid.
LoginFieldsOk ==
  /\ SentHas(SenderCompID) /\ SentHas(TargetCompID)
  /\ SentVal(MsgSeqNum) \in GoodU32

NewOrderFieldsOk ==
  /\ SentHas(Symbol) /\ SentHas(ClOrdId) /\ SentHas(Side)
  /\ SentVal(Price) \in GoodF64 /\ SentVal(OrderQty) \in GoodI32

CancelFieldsOk == SentHas(ClOrdId) /\ SentHas(OrigClOrdId)

FillFieldsOk ==
  /\ SentHas(Symbol) /\ SentHas(ClOrdId) /\ SentHas(Side)
  /\ SentVal(LastPx) \in GoodF64 /\ SentVal(LastShares) \in GoodI32

ResendFieldsOk == SentVal(EndSeqNo) \in GoodU32

IsVariant(name) == res.kind = "ok" /\ res.msg.type = name

IsError(k, f) == res.kind = "err" /\ res.err = k /\ res.field = f

\* C1: a framed message whose segments are all tag=value is classified by
\* tag 35 alone (and by tag 150 for "8"): A Login, 5 Logout, 0 Heartbeat,
\* 2 ResendRequest, 4 SequenceReset, D NewOrder, F CancelOrder, each when the
\* variant's required fields are present and valid; 8 with 150 = 0
\* NewOrderAck, with 150 = 1 or 2 Fill, with 150 absent or anything else
\* MissingField 150; any other tag 35 UnexpectedMessage; tag 35 absent
\* MissingField 35.
C1_DispatchByMsgType ==
  (Decoded /\ SentWellFormed) =>
    LET t == SentVal(MsgType)
        x == SentVal(ExecType)
    IN  /\ t = Absent => IsError("MissingField", 35)
        /\ (t = <<"A">> /\ LoginFieldsOk) => IsVariant("Login")
        /\ t = <<"5">> => IsVariant("Logout")
        /\ t = <<"0">> => IsVariant("Heartbeat")
        /\ (t = <<"2">> /\ ResendFieldsOk) => IsVariant("ResendRequest")
        /\ t = <<"4">> => IsVariant("SequenceReset")
        /\ (t = <<"D">> /\ NewOrderFieldsOk) => IsVariant("New")
        /\ (t = <<"F">> /\ CancelFieldsOk) => IsVariant("Cancel")
        /\ (t = <<"8">> /\ x = <<"0">>) => IsVariant("NewAck")
        /\ (t = <<"8">> /\ x \in {<<"1">>, <<"2">>} /\ FillFieldsOk)
             => IsVariant("Fill")
        /\ (t = <<"8">> /\ x \notin {<<"0">>, <<"1">>, <<"2">>})
             => IsError("MissingField", 150)
        /\ t \notin {Absent, <<"A">>, <<"5">>, <<"0">>, <<"2">>, <<"4">>,
                     <<"D">>, <<"F">>, <<"8">>}
             => res.kind = "err" /\ res.err = "UnexpectedMessage"

\* An execution report with ExecType 2 and valid fill fields was decoded as
\* a Fill.
C1_Witness ==
  /\ Decoded /\ SentWellFormed
  /\ SentVal(MsgType) = <<"8">> /\ SentVal(ExecType) = <<"2">>
  /\ FillFieldsOk
  /\ IsVariant("Fill")

\* C5: every call of parse returns a message or a FixError and never aborts
\* the caller; a framed 35=A message that lacks tag 49, 56 or 34, or whose
\* tag 34 is not an unsigned integer, yields a FixError carrying that tag.
C5_ParseAlwaysReturns ==
  /\ res.kind # "panic"
  /\ (Decoded /\ SentWellFormed /\ SentVal(MsgType) = <<"A">>) =>
       /\ ~SentHas(SenderCompID)
            => res.kind = "err" /\ res.field = SenderCompID
       /\ (SentHas(SenderCompID) /\ ~SentHas(TargetCompID))
            => res.kind = "err" /\ res.field = TargetCompID
       /\ (SentHas(SenderCompID) /\ SentHas(TargetCompID)
             /\ SentVal(MsgSeqNum) \notin GoodU32)
            => res.kind = "err" /\ res.field = MsgSeqNum

\* C6: when a non-empty segment of the framed message has no "=" or has
\* text left of its first "=" that is not an integer, parse fails with a
\* FixError of kind Parse.
C6_MalformedSegmentIsParseError ==
  (Decoded /\ ~SentWellFormed) => (res.kind = "err" /\ res.err = "Parse")

\* C7: a required numeric field that is present but not numeric (the other
\* required fields being present and valid) fails with InvalidFormat
\* carrying its tag: Price and OrderQty of a NewOrder, LastPx and LastShares
\* of a Fill, EndSeqNo of a ResendRequest.
C7_NonNumericIsInvalidFormat ==
  (Decoded /\ SentWellFormed) =>
    LET t == SentVal(MsgType)
        x == SentVal(ExecType)
        others == \A k \in {Symbol, ClOrdId, Side} : SentHas(k)
        isNew == t = <<"D">> /\ others
        isFill == t = <<"8">> /\ x \in {<<"1">>, <<"2">>} /\ others
    IN  /\ (isNew /\ SentVal(Price) \in NotNumeric
              /\ SentVal(OrderQty) \in GoodI32)
             => IsError("InvalidFormat", Price)
        /\ (isNew /\ SentVal(Price) \in GoodF64
              /\ SentVal(OrderQty) \in NotNumeric)
             => IsError("InvalidFormat", OrderQty)
        /\ (isFill /\ SentVal(LastPx) \in NotNumeric
              /\ SentVal(LastShares) \in GoodI32)
             => IsError("InvalidFormat", LastPx)
        /\ (isFill /\ SentVal(LastPx) \in GoodF64
              /\ SentVal(LastShares) \in NotNumeric)
             => IsError("InvalidFormat", LastShares)
        /\ (t = <<"2">> /\ SentVal(EndSeqNo) \in NotNumeric)
             => IsError("InvalidFormat", EndSeqNo)

(***************************************************************************)
(* Decoding a stream.  The peer puts two frames on the wire back to back;  *)
(* the caller reads a few bytes at a time, calls parse on what it has, and *)
(* on success advances its buffer by the bytes parse reports eaten.        *)
(***************************************************************************)
MaxChunk == 3

Frame(bytes, valid, type) == [bytes |-> bytes, valid |-> valid, type |-> type]

StreamFrames ==
  { Frame(<<"3", "5", "=", "0", SOH, "1", "0", "=", "0", "0", "0", SOH>>,
          TRUE, "Heartbeat"),
    Frame(<<"8", "=", "F", "I", "X", "4", ".", "2", SOH, "3", "5", "=", "5",
            SOH, "1", "0", "=", "1", "2", "3", SOH>>, TRUE, "Logout"),
    Frame(<<"3", "5", "=", "D", SOH, "1", "0", "=", "0", "0", "0", SOH>>,
          FALSE, "New"),
    Frame(<<"A", "B", SOH, "1", "0", "=", "0", "0", "0", SOH>>,
          FALSE, "none"),
    Frame(<<"3", "5", "=", "0", SOH, "1", "0", "=", "1", SOH>>,
          FALSE, "Heartbeat"),
    Frame(<<"3", "5", "=", "0", SOH, "1", "0", "=", "1", "2", "3", "4", SOH>>,
          FALSE, "Heartbeat") }

InitStream ==
  /\ \E f1 \in StreamFrames : \E f2 \in StreamFrames :
       /\ frames = <<f1, f2>>
       /\ wire = f1.bytes \o f2.bytes
  /\ buf = <<>>
  /\ res = NoRes
  /\ sent = <<>>
  /\ pos = 0
  /\ call = NoCall
  /\ out = NoRes
  /\ px = NoPx

\* The caller reads up to MaxChunk of the bytes that have arrived.
Recv ==
  /\ wire # <<>>
  /\ \E n \in 1..MaxChunk :
       /\ n <= Len(wire)
       /\ buf' = buf \o Take(wire, n)
       /\ wire' = Drop(wire, n)
  /\ res' = NoRes
  /\ UNCHANGED <<sent, frames, pos, call, out, px>>

\* After a successful parse the caller advances past the bytes eaten.
Advance ==
  /\ res.kind = "ok"
  /\ buf' = Drop(buf, res.eaten)
  /\ pos' = pos + res.eaten
  /\ res' = NoRes
  /\ UNCHANGED <<wire, sent, frames, call, out, px>>

NextStream == Recv \/ Parse \/ Advance

SpecStream == InitStream /\ [][NextStream]_vars

(***************************************************************************)
(* Claims about framing (SpecStream)                                       *)
(***************************************************************************)
\* A complete frame: it ends with SOH "10=" three digits SOH and has no
\* earlier SOH "10=" marker.
IsCompleteFrame(f) ==
  /\ Len(f) >= 8
  /\ MatchAt(f, <<SOH, "1", "0", "=">>, Len(f) - 7)
  /\ \A i \in 1..(Len(f) - 8) : ~MatchAt(f, <<SOH, "1", "0", "=">>, i)
  /\ \A i \in (Len(f) - 3)..(Len(f) - 1) : IsDigit(f[i])
  /\ f[Len(f)] = SOH

\* The frame whose first byte is the first byte of the read buffer, if the
\* caller stands at a frame boundary (0 otherwise).
Cur ==
  IF frames = <<>> THEN 0
  ELSE IF pos = 0 THEN 1
  ELSE IF pos = Len(frames[1].bytes) THEN 2
  ELSE 0

\* C2: for a complete frame F, parse on every strict prefix of F returns
\* Incomplete with field 10; once the buffer holds all of F, parse no longer
\* returns Incomplete and, for a frame with valid fields, succeeds.
C2_IncompleteUntilLastByte ==
  (res # NoRes /\ Cur # 0 /\ IsCompleteFrame(frames[Cur].bytes)) =>
    IF Len(buf) < Len(frames[Cur].bytes)
    THEN res = Err("Incomplete", 10)
    ELSE /\ ~(res.kind = "err" /\ res.err = "Incomplete")
         /\ frames[Cur].valid => res.kind = "ok"

\* The second frame was parsed successfully at the moment its last byte
\* arrived, after having been parsed one byte short.
C2_Witness ==
  /\ Cur = 2 /\ IsCompleteFrame(frames[2].bytes)
  /\ buf = frames[2].bytes
  /\ res.kind = "ok"

\* Where the first checksum field of b, the one the first SOH "10=" marker
\* starts, ends: the offset just past the SOH that terminates it (0 when
\* nothing terminates it), and the length of its value.
ChecksumFieldEnd(b) ==
  LET from == Find(b, <<SOH, "1", "0", "=">>) + 5
  IN  IF \E j \in from..Len(b) : b[j] = SOH
      THEN CHOOSE j \in from..Len(b) :
             b[j] = SOH /\ \A i \in from..(j - 1) : b[i] # SOH
      ELSE 0

ChecksumValueLen(b) ==
  LET from == Find(b, <<SOH, "1", "0", "=">>) + 5
  IN  IF ChecksumFieldEnd(b) = 0 THEN Len(b) + 1 - from
      ELSE ChecksumFieldEnd(b) - from

\* Two complete frames back to back: each parse returns the frame's message
\* and its length.
Pipelined ==
  (/\ res.kind = "ok" /\ Cur # 0
   /\ IsCompleteFrame(frames[1].bytes) /\ IsCompleteFrame(frames[2].bytes))
    => /\ res.eaten = Len(frames[Cur].bytes)
       /\ res.msg.type = frames[Cur].type

\* C3 as stated: whenever parse succeeds, the byte count is the offset just
\* past the SOH that terminates the first checksum field, whatever the
\* length of the checksum value; and two concatenated complete frames are
\* returned one after the other with their lengths.
C3_EatenIsChecksumEnd ==
  /\ res.kind = "ok" => res.eaten = ChecksumFieldEnd(buf)
  /\ Pipelined

\* C3 amended: the same when the checksum value is three bytes long.
C3_EatenIsChecksumEndOfThree ==
  /\ (res.kind = "ok" /\ ChecksumValueLen(buf) = 3)
       => res.eaten = ChecksumFieldEnd(buf)
  /\ Pipelined

\* The second of two complete frames was returned with its length, the
\* first having been eaten.
C3_Witness ==
  /\ Cur = 2 /\ res.kind = "ok"
  /\ IsCompleteFrame(frames[1].bytes) /\ IsCompleteFrame(frames[2].bytes)
  /\ res.eaten = Len(frames[2].bytes)
  /\ Len(wire) = 0

(***************************************************************************)
(* Encoding.  A caller serializes messages, through serialize itself with  *)
(* a field table of its own or through the per-message helpers.  The order *)
(* in which a HashMap yields its entries is not specified, and the sending *)
(* time is the clock's: both are inputs of the call.                       *)
(***************************************************************************)
MaxBody == 3

MaxPermuted == 3

Senders == {<<"C", "L", "I", "E", "N", "T">>, <<"S">>}

Targets == {<<"T", "G", "T">>}

Seqnos ==
  {U32OfNat(0), U32OfNat(1234), U32OfNat(9999999), U32OfNat(10000000),
   U32(65535, 65535)}

\* Utc::now() formatted with "%Y%m%d-%T%.3f".
Times ==
  {<<"2", "0", "2", "0", "0", "1", "0", "2", "-", "0", "3", ":", "0", "4",
     ":", "0", "5", ".", "0", "0", "6">>,
   <<"1", "9", "9", "9", "1", "2", "3", "1", "-", "2", "3", ":", "5", "9",
     ":", "5", "9", ".", "9", "9", "9">>}

TypeTexts == {<<"0">>, <<"A", "B">>}

PoolTags == {BeginString, BodyLength, MsgType, MsgSeqNum, 52, Symbol}

PoolValue(k) == <<"V">> \o I32Text(k)

Supplied == {T \in SUBSET PoolTags : Cardinality(T) <= MaxBody}

TableOf(S) == [k \in S |-> PoolValue(k)]

Perms(S) ==
  {o \in [1..Cardinality(S) -> S] : \A i, j \in 1..Cardinality(S) :
                                      o[i] = o[j] => i = j}

RECURSIVE Asc(_)
Asc(S) ==
  IF S = {} THEN <<>>
  ELSE LET m == CHOOSE x \in S : \A y \in S : x <= y
       IN  <<m>> \o Asc(S \ {m})

Reversed(o) == [i \in 1..Len(o) |-> o[Len(o) + 1 - i]]

Rotated(o) == IF o = <<>> THEN o ELSE Tail(o) \o <<Head(o)>>

\* The orders in which the entries of a table with keys S are visited: all
\* of them for a small table, a few of them for a larger one.
Orders(S) ==
  IF Cardinality(S) <= MaxPermuted THEN Perms(S)
  ELSE {Asc(S), Reversed(Asc(S)), Rotated(Asc(S))}

InputIds == {<<"O", "R", "D", "1">>, <<"7">>}

InputSymbols == {<<"A", "A", "P", "L">>}

InputPrices == {1345600, 3, -15000}

InputQtys == {600, 0}

\* The calls of serialize on one table: one for each sender, target, time
\* and order of the entries, each with its outcome.
Calls(helper, msg_type, seqno, msg) ==
  { [call |-> [helper |-> helper, msg_type |-> msg_type,
               sendercompid |-> sender, targetcompid |-> target,
               seqno |-> seqno, msg |-> msg, order |-> order,
               dtstr |-> dtstr],
     out |-> serialize(msg_type, sender, target, seqno, msg, order, dtstr)] :
    sender \in Senders, target \in Targets, dtstr \in Times,
    order \in Orders(DOMAIN msg) }

Serialize ==
  /\ call = NoCall
  /\ \E t \in TypeTexts : \E seqno \in Seqnos : \E S \in Supplied :
       \E c \in Calls("serialize", t, seqno, TableOf(S)) :
         call' = c.call /\ out' = c.out
  /\ UNCHANGED <<wire, buf, res, sent, frames, pos, px>>

SerializeNewOrderAck ==
  /\ call = NoCall
  /\ \E seqno \in Seqnos : \E clordid \in InputIds :
       \E symbol \in InputSymbols : \E price \in InputPrices :
         \E qty \in InputQtys :
           \E c \in Calls("NewOrderAck", <<"8">>, seqno,
                          NewOrderAck_fields(clordid, <<"1">>, symbol, price,
                                             qty, "B")) :
             call' = c.call /\ out' = c.out
  /\ UNCHANGED <<wire, buf, res, sent, frames, pos, px>>

SerializeCancelOrderAck ==
  /\ call = NoCall
  /\ \E seqno \in Seqnos : \E clordid \in InputIds :
       \E symbol \in InputSymbols :
         \E c \in Calls("CancelOrderAck", <<"8">>, seqno,
                        CancelOrderAck_fields(clordid, <<"O", "R", "D", "0">>,
                                              <<"1">>, symbol)) :
           call' = c.call /\ out' = c.out
  /\ UNCHANGED <<wire, buf, res, sent, frames, pos, px>>

SerializeOrderReject ==
  /\ call = NoCall
  /\ \E seqno \in Seqnos : \E clordid \in InputIds :
       \E symbol \in InputSymbols :
         \E c \in Calls("OrderReject", <<"8">>, seqno,
                        OrderReject_fields(clordid, symbol, <<"N", "O">>)) :
           call' = c.call /\ out' = c.out
  /\ UNCHANGED <<wire, buf, res, sent, frames, pos, px>>

SerializeFill ==
  /\ call = NoCall
  /\ \E seqno \in Seqnos : \E clordid \in InputIds :
       \E symbol \in InputSymbols : \E exec_price \in InputPrices :
         \E leaves_qty \in InputQtys :
           \E c \in Calls("Fill", <<"8">>, seqno,
                          Fill_fields(clordid, <<"1">>, symbol, 42,
                                      exec_price, 100, leaves_qty)) :
             call' = c.call /\ out' = c.out
  /\ UNCHANGED <<wire, buf, res, sent, frames, pos, px>>

SerializeLogin ==
  /\ call = NoCall
  /\ \E seqno \in Seqnos :
       \E c \in Calls("Login", <<"A">>, seqno, EmptyFields) :
         call' = c.call /\ out' = c.out
  /\ UNCHANGED <<wire, buf, res, sent, frames, pos, px>>

SerializeHeartbeat ==
  /\ call = NoCall
  /\ \E seqno \in Seqnos :
       \E c \in Calls("Heartbeat", <<"0">>, seqno, EmptyFields) :
         call' = c.call /\ out' = c.out
  /\ UNCHANGED <<wire, buf, res, sent, frames, pos, px>>

SerializeSequenceReset ==
  /\ call = NoCall
  /\ \E seqno \in Seqnos : \E new_seqno \in Seqnos : \E gap_fill \in BOOLEAN :
       \E c \in Calls("SequenceReset", <<"4">>, seqno,
                      SequenceReset_fields(new_seqno, gap_fill)) :
         call' = c.call /\ out' = c.out
  /\ UNCHANGED <<wire, buf, res, sent, frames, pos, px>>

\* The caller hands the frame to its transport and is ready for the next.
Send ==
  /\ call # NoCall
  /\ call' = NoCall
  /\ out' = NoRes
  /\ UNCHANGED <<wire, buf, res, sent, frames, pos, px>>

NextEncode ==
  \/ Serialize
  \/ SerializeNewOrderAck
  \/ SerializeCancelOrderAck
  \/ SerializeOrderReject
  \/ SerializeFill
  \/ SerializeLogin
  \/ SerializeHeartbeat
  \/ SerializeSequenceReset
  \/ Send

SpecEncode == Idle /\ [][NextEncode]_vars

(***************************************************************************)
(* Claims about serialized frames (SpecEncode)                             *)
(***************************************************************************)
Produced == out.kind = "ok"

\* The frame cut at its separators: its fields, and whatever follows the
\* last separator (nothing, when every field is terminated).
FrameFields == SplitOn(out.val, SOH)

\* The bytes of the frame before its last seven, the checksum field.
BeforeChecksum == Take(out.val, Len(out.val) - 7)

\* C4: every produced frame ends with 10=ddd SOH, ddd being three decimal
\* digits whose value is the sum of all the bytes before the checksum field
\* modulo 256.
C4_ChecksumIsByteSum ==
  Produced =>
    LET n == Len(out.val)
        ddd == SubSeq(out.val, n - 3, n - 1)
    IN  /\ n >= 7
        /\ SubSeq(out.val, n - 6, n - 4) = <<"1", "0", "=">>
        /\ out.val[n] = SOH
        /\ AllDigits(ddd)
        /\ 100 * DigitVal(ddd[1]) + 10 * DigitVal(ddd[2]) + DigitVal(ddd[3])
             = ByteSum(BeforeChecksum) % 256

\* A helper's frame whose checksum needed zero padding.
C4_Witness ==
  /\ Produced
  /\ call.helper = "Fill"
  /\ out.val[Len(out.val) - 3] = "0"
  /\ ByteSum(BeforeChecksum) % 256 < 100

\* The supplied fields that serialize writes to the body.
BodyTagsOf(msg) == DOMAIN msg \ {8, 9, 35, 34}

\* C8: a produced frame is the fields 8=FIX4.2, 9, 35, 52, 49, 56 and 34
\* (the sequence number zero-padded to 7 digits) in this order, then exactly
\* one tag=value field for each supplied field whose tag is not 8, 9, 35 or
\* 34, then the 10 field last; every field is terminated by SOH.
C8_FrameLayout ==
  Produced =>
    LET f == FrameFields
        n == Cardinality(BodyTagsOf(call.msg))
        seq == ValText(f[7])
    IN  /\ Len(f) = 7 + n + 2
        /\ f[Len(f)] = <<>>
        /\ f[1] = <<"8", "=", "F", "I", "X", "4", ".", "2">>
        /\ KeyText(f[2]) = <<"9">> /\ AllDigits(ValText(f[2]))
        /\ f[3] = <<"3", "5", "=">> \o call.msg_type
        /\ f[4] = <<"5", "2", "=">> \o call.dtstr
        /\ f[5] = <<"4", "9", "=">> \o call.sendercompid
        /\ f[6] = <<"5", "6", "=">> \o call.targetcompid
        /\ KeyText(f[7]) = <<"3", "4">>
        /\ AllDigits(seq) /\ Len(seq) >= 7
        /\ Len(seq) > 7 => seq[1] # "0"
        /\ ParseU32(seq) = [ok |-> TRUE, val |-> call.seqno]
        /\ \A k \in BodyTagsOf(call.msg) :
             Cardinality({i \in 8..(7 + n) :
                            f[i] = I32Text(k) \o <<"=">> \o call.msg[k]}) = 1
        /\ KeyText(f[8 + n]) = <<"1", "0">>

\* A frame for a table that supplied both header tags and body tags.
C8_Witness ==
  /\ Produced
  /\ call.helper = "serialize"
  /\ DOMAIN call.msg = {MsgSeqNum, BodyLength, 52}
  /\ Len(FrameFields) = 10

\* C10: the value of BodyLength is the number of bytes of the frame after
\* the SOH of the BodyLength field and before the CheckSum field, for every
\* sequence number.
C10_BodyLengthCountsBytes ==
  Produced =>
    LET f == FrameFields
        after == Len(f[1]) + 1 + Len(f[2]) + 1
    IN  ValText(f[2]) = NatText(Len(out.val) - 7 - after)

(***************************************************************************)
(* Prices.  A scaled price is rendered by NewOrderAck::serialize or        *)
(* Fill::serialize, or a peer quotes a decimal text of its own; the text   *)
(* is then decoded by NewOrder::new or Fill::new.                          *)
(***************************************************************************)
MaxPrice == 60

Quotes ==
  {<<"1", "3", "4", ".", "5", "6">>,
   <<"0", ".", "0", "0", "0", "2", "9">>,
   <<"1", ".", "2", "3", "4", "5", "6">>,
   <<"-", "1", ".", "2", "3", "4", "5", "6">>,
   <<"7", ".", "0", "0", "0", "0", "9", "9">>}

RenderAck ==
  /\ px.stage = "idle"
  /\ \E price \in (0 - MaxPrice)..MaxPrice :
       px' = [stage |-> "rendered", via |-> "NewOrderAck", price |-> price,
              text |-> NewOrderAck_fields(<<"1">>, <<"1">>, <<"A">>, price,
                                          1, "B")[Price]]
  /\ UNCHANGED <<wire, buf, res, sent, frames, pos, call, out>>

RenderFill ==
  /\ px.stage = "idle"
  /\ \E price \in (0 - MaxPrice)..MaxPrice :
       px' = [stage |-> "rendered", via |-> "Fill", price |-> price,
              text |-> Fill_fields(<<"1">>, <<"1">>, <<"A">>, 1, price, 1,
                                   0)[LastPx]]
  /\ UNCHANGED <<wire, buf, res, sent, frames, pos, call, out>>

Quote ==
  /\ px.stage = "idle"
  /\ \E text \in Quotes :
       px' = [stage |-> "rendered", via |-> "peer", price |-> 0,
              text |-> text]
  /\ UNCHANGED <<wire, buf, res, sent, frames, pos, call, out>>

DecodeNewOrder ==
  /\ px.stage = "rendered"
  /\ LET m == (Symbol :> <<"A">>) @@ (ClOrdId :> <<"1">>)
                @@ (Price :> px.text) @@ (Side :> <<"1">>)
                @@ (OrderQty :> <<"1">>)
     IN  px' = [px EXCEPT !.stage = "decoded"]
                 @@ [got |-> NewOrder_new(m).val.price]
  /\ UNCHANGED <<wire, buf, res, sent, frames, pos, call, out>>

DecodeFill ==
  /\ px.stage = "rendered"
  /\ LET m == (Symbol :> <<"A">>) @@ (ClOrdId :> <<"1">>)
                @@ (LastPx :> px.text) @@ (LastShares :> <<"1">>)
                @@ (Side :> <<"1">>)
     IN  px' = [px EXCEPT !.stage = "decoded"]
                 @@ [got |-> Fill_new(m).val.exec_price]
  /\ UNCHANGED <<wire, buf, res, sent, frames, pos, call, out>>

Forget ==
  /\ px.stage = "decoded"
  /\ px' = NoPx
  /\ UNCHANGED <<wire, buf, res, sent, frames, pos, call, out>>

NextPrice ==
  \/ RenderAck
  \/ RenderFill
  \/ Quote
  \/ DecodeNewOrder
  \/ DecodeFill
  \/ Forget

SpecPrice == Idle /\ [][NextPrice]_vars

(***************************************************************************)
(* Claims about prices (SpecPrice)                                         *)
(***************************************************************************)
RECURSIVE DigitsValue(_)
DigitsValue(ds) ==
  IF ds = <<>> THEN 0
  ELSE 10 * DigitsValue(Take(ds, Len(ds) - 1)) + DigitVal(ds[Len(ds)])

\* The decimal a text denotes, times 10000, truncated toward zero: computed
\* on the digits, with no floating point.
TruncatedScaled(t) ==
  LET neg == t # <<>> /\ Head(t) = "-"
      u == IF neg THEN Tail(t) ELSE t
      dot == Find(u, <<".">>)
      int == IF dot = -1 THEN u ELSE Take(u, dot)
      frac == IF dot = -1 THEN <<>> ELSE Drop(u, dot + 1)
      four == Take(frac \o <<"0", "0", "0", "0">>, 4)
      v == DigitsValue(int) * 10000 + DigitsValue(four)
  IN  IF neg THEN 0 - v ELSE v

\* C9: a scaled price rendered by a serializer and decoded again is the
\* price that was rendered; a decimal text decodes to its value times 10000
\* truncated toward zero.
C9_PriceRoundTrip ==
  px.stage = "decoded" =>
    /\ px.via # "peer" => px.got = px.price
    /\ px.got = TruncatedScaled(px.text)

(***************************************************************************)
(* Round trips.  A caller serializes a message with one of the helpers and *)
(* gives the bytes it got to parse, as a peer receiving them would.        *)
(***************************************************************************)
\* The produced bytes are the whole read buffer of the call to parse.
ParseProduced ==
  /\ call # NoCall
  /\ out.kind = "ok"
  /\ res = NoRes
  /\ buf' = out.val
  /\ res' = parse(out.val)
  /\ UNCHANGED <<wire, sent, frames, pos, call, out, px>>

\* The caller takes the result and starts over.
Taken ==
  /\ res # NoRes
  /\ buf' = <<>>
  /\ res' = NoRes
  /\ call' = NoCall
  /\ out' = NoRes
  /\ UNCHANGED <<wire, sent, frames, pos, px>>

NextRoundTrip ==
  \/ SerializeLogin
  \/ SerializeHeartbeat
  \/ SerializeSequenceReset
  \/ SerializeNewOrderAck
  \/ SerializeFill
  \/ ParseProduced
  \/ Taken

SpecRoundTrip == Idle /\ [][NextRoundTrip]_vars

(***************************************************************************)
(* Claims about round trips (SpecRoundTrip)                                *)
(***************************************************************************)
\* The message kind parse is to return for a helper's frame.
KindOf(helper) ==
  CASE helper = "Login" -> "Login"
    [] helper = "Heartbeat" -> "Heartbeat"
    [] helper = "SequenceReset" -> "SequenceReset"
    [] helper = "NewOrderAck" -> "NewAck"
    [] helper = "Fill" -> "Fill"

\* C11: parse applied to the bytes a helper produced (Login, Heartbeat,
\* SequenceReset, NewOrderAck, Fill) succeeds, consumes all of them and
\* returns the helper's message kind: a Login with the sender, target and
\* sequence number serialized, a Fill with the symbol, order id, executed
\* price and executed quantity serialized.
C11_HelperRoundTrip ==
  (res # NoRes /\ call # NoCall) =>
    /\ res.kind = "ok"
    /\ res.eaten = Len(out.val)
    /\ res.msg.type = KindOf(call.helper)
    /\ call.helper = "Login" =>
         /\ res.msg.sendercompid = call.sendercompid
         /\ res.msg.targetcompid = call.targetcompid
         /\ res.msg.seqno = call.seqno
    /\ call.helper = "Fill" =>
         /\ res.msg.symbol = call.msg[Symbol]
         /\ res.msg.clorid = call.msg[ClOrdId]
         /\ I32Text(res.msg.exec_qty) = call.msg[LastShares]
         /\ \E p \in InputPrices :
              /\ call.msg[LastPx] = F64Text(PriceF64(p))
              /\ res.msg.exec_price = p

\* The same for the helpers other than Fill: it holds, so what fails is
\* the Fill round trip alone.
RoundTripButFill ==
  (call # NoCall /\ call.helper = "Fill") \/ C11_HelperRoundTrip

=============================================================================
